---------------------------- MODULE Spec2Model ----------------------------
(***************************************************************************)
(* Tournament core of cue-bot: bracket generation (bracketGenerator.ts),   *)
(* persistence of the generated bracket (matchService.createMatches), the  *)
(* per-match lifecycle operations and winner advancement (matchService.ts),*)
(* tournament completion (tournamentService.ts) and the confirmation       *)
(* timeout (timeoutService, checkPendingConfirmations).                    *)
(*                                                                         *)
(* A match row is identified by its bracket position: createMatches maps   *)
(* every generated position to exactly one inserted row.  User ids are     *)
(* natural numbers, 0 stands for a NULL column.                            *)
(***************************************************************************)
EXTENDS Integers, Sequences, FiniteSets, TLC

\* ------------------------------------------------------------------ bounds
\* largest number of participants of a single elimination explored by Spec
MaxPlayers == 4
\* largest number of participants of a round robin (SpecRoundRobin)
MaxRoundRobin == 3
\* largest number of participants played through by SpecPlay
MaxPlayPlayers == 6
\* largest game score a caller submits to reportResult
MaxScore == 3
\* number of storing handler calls explored from a fresh bracket by Spec
MaxOps == 3
\* the same for SpecRoundRobin
MaxRoundRobinOps == 2
\* number of interleaved confirmResult / disputeResult calls of SpecRace
MaxCalls == 2
\* largest number of participants of the single elimination of SpecRace
MaxRacePlayers == 3
\* largest number of registered participants a tournament of SpecGenerate
\* is started with
MaxGeneratePlayers == 17
\* the same for a round robin tournament
MaxGenerateRoundRobin == 6
\* largest array of which every outcome of shuffleArray is explored
MaxShuffled == 3
\* number of storing handler calls explored after the start by SpecGenerate
MaxGenerateOps == 1
\* number of storing handler calls explored from a fresh double elimination
\* bracket by SpecDouble
MaxDoubleOps == 3
\* number of technical results the administrator sets in SpecDoubleAdmin
MaxDoubleAdminOps == 5
\* largest number of registered participants of SpecStartRace
MaxStartPlayers == 3

\* ------------------------------------------------------- program constants
\* NULL of a nullable column
Null == 0
\* id of the administrator that calls setTechnicalResult
AdminId == 99
\* NULL of the nullable score columns (0 is a score)
NullScore == -1
\* tournaments.winScore of the modelled tournament
WinScore == 2

\* ----------------------------------------------------- bracketGenerator.ts
RECURSIVE PowerOfTwoFrom(_, _)
PowerOfTwoFrom(power, n) ==
  IF power < n THEN PowerOfTwoFrom(power * 2, n) ELSE power

\* the loop with power <= n as its condition
getNextPowerOfTwoAbove(n) == PowerOfTwoFrom(1, n + 1)

getNextPowerOfTwo(n) == PowerOfTwoFrom(1, n)

RECURSIVE calculateRounds(_)
calculateRounds(bracketSize) ==
  IF bracketSize <= 1 THEN 0 ELSE 1 + calculateRounds(bracketSize \div 2)

\* result.push(seed); result.push(bracketSize + 1 - seed) for each seed of topHalf
RECURSIVE Mirror(_, _)
Mirror(topHalf, bracketSize) ==
  IF topHalf = <<>> THEN <<>>
  ELSE <<Head(topHalf), bracketSize + 1 - Head(topHalf)>>
         \o Mirror(Tail(topHalf), bracketSize)

RECURSIVE generateSeedPositions(_)
generateSeedPositions(bracketSize) ==
  IF bracketSize = 2 THEN <<1, 2>>
  ELSE Mirror(generateSeedPositions(bracketSize \div 2), bracketSize)

\* allSlots[i] of the TypeScript array is AllSlots(participants)[i + 1]
AllSlots(participants) ==
  LET bracketSize   == getNextPowerOfTwo(Len(participants))
      seedPositions == generateSeedPositions(bracketSize)
  IN  [i \in 1..bracketSize |->
         IF seedPositions[i] <= Len(participants)
           THEN participants[seedPositions[i]] ELSE Null]

\* a BracketMatch; nextMatchId = Null, nextMatchPosition = "none" and
\* losersNextMatchPosition = Null stand for the undefined optional fields
BracketMatch(round, position, p1, p2, next, slot) ==
  [round |-> round, position |-> position, player1Id |-> p1, player2Id |-> p2,
   nextMatchId |-> next, nextMatchPosition |-> slot, bracketType |-> "winners",
   losersNextMatchPosition |-> Null]

\* Math.ceil((i + 1) / 2)
CeilHalf(k) == (k + 1) \div 2

\* the round-1 loop (i = 0 .. bracketSize/2 - 1)
RoundOne(participants) ==
  LET bracketSize == getNextPowerOfTwo(Len(participants))
      totalRounds == calculateRounds(bracketSize)
      allSlots    == AllSlots(participants)
  IN  [k \in 1..(bracketSize \div 2) |->
         LET i == k - 1
             nextMatchPos == CeilHalf(i + 1) + bracketSize \div 2
             isTopHalf    == i % 2 = 0
             isFinal      == totalRounds = 1
         IN  BracketMatch(1, k, allSlots[i * 2 + 1], allSlots[i * 2 + 2],
                          IF isFinal THEN Null ELSE nextMatchPos,
                          IF isFinal THEN "none"
                          ELSE IF isTopHalf THEN "player1" ELSE "player2")]

\* the matches of one later round, matchPosition being the position of its
\* first match; the loop increments matchPosition with i
LaterRound(round, matchPosition, matchesInRound, totalRounds) ==
  [k \in 1..matchesInRound |->
     LET i == k - 1
         isFinal      == round = totalRounds
         nextMatchPos == (matchPosition + i) + matchesInRound + i \div 2
         isTopHalf    == i % 2 = 0
     IN  BracketMatch(round, matchPosition + i, Null, Null,
                      IF isFinal THEN Null ELSE nextMatchPos,
                      IF isFinal THEN "none"
                      ELSE IF isTopHalf THEN "player1" ELSE "player2")]

RECURSIVE LaterRounds(_, _, _, _)
LaterRounds(round, matchPosition, matchesInPrevRound, totalRounds) ==
  IF round > totalRounds THEN <<>>
  ELSE LET matchesInRound == matchesInPrevRound \div 2
       IN  LaterRound(round, matchPosition, matchesInRound, totalRounds)
             \o LaterRounds(round + 1, matchPosition + matchesInRound,
                            matchesInRound, totalRounds)

\* index of the first match with the given position, 0 when there is none
FindPosition(ms, position) ==
  IF \E j \in 1..Len(ms) : ms[j].position = position
    THEN CHOOSE j \in 1..Len(ms) :
           /\ ms[j].position = position
           /\ \A h \in 1..(j - 1) : ms[h].position # position
    ELSE 0

advanceToNextMatch(ms, currentMatch, playerId) ==
  IF currentMatch.nextMatchId = Null THEN ms
  ELSE LET j == FindPosition(ms, currentMatch.nextMatchId)
       IN  IF j = 0 THEN ms
           ELSE IF currentMatch.nextMatchPosition = "player1"
                  THEN [ms EXCEPT ![j].player1Id = playerId]
                  ELSE [ms EXCEPT ![j].player2Id = playerId]

\* the BYE loop over matches[i], i = from .. Len
RECURSIVE ProcessByes(_, _)
ProcessByes(ms, i) ==
  IF i > Len(ms) THEN ms
  ELSE LET match == ms[i]
           after ==
             IF match.round # 1 THEN ms
             ELSE IF match.player1Id # Null /\ match.player2Id = Null
               THEN advanceToNextMatch(ms, match, match.player1Id)
             ELSE IF match.player1Id = Null /\ match.player2Id # Null
               THEN advanceToNextMatch(ms, match, match.player2Id)
             ELSE ms
       IN  ProcessByes(after, i + 1)

generateSingleEliminationBracket(participants) ==
  LET bracketSize == getNextPowerOfTwo(Len(participants))
      totalRounds == calculateRounds(bracketSize)
      roundOne    == RoundOne(participants)
      later       == LaterRounds(2, bracketSize \div 2 + 1, bracketSize \div 2,
                                 totalRounds)
  IN  ProcessByes(roundOne \o later, 1)


\* userId of the synthetic participant appended for an odd round robin
ByeId == 98

\* players.pop(); players.splice(1, 0, lastPlayer)
RotateWhole(players) ==
  <<players[Len(players)]>> \o SubSeq(players, 1, Len(players) - 1)

Rotate(players) ==
  <<players[1], players[Len(players)]>>
    \o SubSeq(players, 2, Len(players) - 1)

\* the inner loop of one round robin round (i = from .. matchesPerRound - 1);
\* matchPosition is the next free position
RECURSIVE RoundRobinRound(_, _, _, _)
RoundRobinRound(players, round, i, matchPosition) ==
  IF i >= Len(players) \div 2 THEN <<>>
  ELSE LET home == players[i + 1]
           away == players[Len(players) - i]
       IN  IF home = ByeId \/ away = ByeId
             THEN RoundRobinRound(players, round, i + 1, matchPosition)
             ELSE <<BracketMatch(round, matchPosition, home, away, Null, "none")>>
                    \o RoundRobinRound(players, round, i + 1, matchPosition + 1)

RECURSIVE RoundRobinRounds(_, _, _)
RoundRobinRounds(players, round, matchPosition) ==
  IF round > Len(players) - 1 THEN <<>>
  ELSE LET made == RoundRobinRound(players, round, 0, matchPosition)
       IN  made \o RoundRobinRounds(Rotate(players), round + 1,
                                    matchPosition + Len(made))

\* the schedule without the synthetic participant for an odd number
generateRoundRobinMatchesUnpadded(shuffled) == RoundRobinRounds(shuffled, 1, 1)

\* shuffled is the outcome of shuffleArray(participants)
generateRoundRobinMatches(shuffled) ==
  LET hasBye  == Len(shuffled) % 2 = 1
      players == IF hasBye THEN Append(shuffled, ByeId) ELSE shuffled
  IN  RoundRobinRounds(players, 1, 1)

\* the orders shuffleArray can return: every permutation of the array
shuffleArray(array) ==
  { [i \in 1..Len(array) |-> array[f[i]]] :
      f \in { g \in [1..Len(array) -> 1..Len(array)] :
                \A a, b \in 1..Len(array) : a # b => g[a] # g[b] } }

\* the number of participants generateDoubleEliminationBracket accepts
DoubleEliminationSize == 16

\* a match of generateDoubleEliminationBracket as the push loops create it:
\* no players but in round 1 upper, no links yet
DoubleMatch(round, position, bracketType) ==
  [BracketMatch(round, position, Null, Null, Null, "none")
     EXCEPT !.bracketType = bracketType]

\* array[i]?.userId ?? null, i counted from 0
UserIdAt(array, i) == IF i + 1 \in DOMAIN array THEN array[i + 1] ELSE Null

\* allMatches after the seven push loops; allMatches[i] of the TypeScript
\* array is element i + 1
DoublePushed(shuffled) ==
  [k \in 1..8 |->
     LET i == k - 1
     IN  BracketMatch(1, i + 1, UserIdAt(shuffled, i * 2),
                      UserIdAt(shuffled, i * 2 + 1), Null, "none")]
    \o [k \in 1..4 |-> DoubleMatch(1, 9 + (k - 1), "losers")]
    \o [k \in 1..4 |-> DoubleMatch(2, 13 + (k - 1), "winners")]
    \o [k \in 1..4 |-> DoubleMatch(2, 17 + (k - 1), "losers")]
    \o [k \in 1..4 |-> DoubleMatch(3, 21 + (k - 1), "winners")]
    \o [k \in 1..2 |-> DoubleMatch(4, 25 + (k - 1), "winners")]
    \o <<DoubleMatch(5, 27, "winners")>>

\* the slots alternating the other way round
AlternateFromOdd(i) == IF i % 2 = 1 THEN "player1" ELSE "player2"

Alternate(i) == IF i % 2 = 0 THEN "player1" ELSE "player2"

\* allMatches[index].nextMatchId = next; .nextMatchPosition = slot
Linked(match, next, slot) ==
  [match EXCEPT !.nextMatchId = next, !.nextMatchPosition = slot]

\* the six WINNER PATHS loops; the loop that covers array index j - 1 sets
\* the link of element j
DoubleWinnerPaths(allMatches) ==
  [j \in 1..Len(allMatches) |->
     IF j - 1 < 8
       THEN LET i == j - 1
            IN  Linked(allMatches[j], 13 + i \div 2, Alternate(i))
     ELSE IF j - 1 < 12
       THEN LET i == j - 1 - 8
            IN  Linked(allMatches[j], 17 + i, "player1")
     ELSE IF j - 1 < 16
       THEN LET i == j - 1 - 12
            IN  Linked(allMatches[j], 21 + i, "player1")
     ELSE IF j - 1 < 20
       THEN LET i == j - 1 - 16
            IN  Linked(allMatches[j], 21 + i, "player2")
     ELSE IF j - 1 < 24
       THEN LET i == j - 1 - 20
            IN  Linked(allMatches[j], 25 + i \div 2, Alternate(i))
     ELSE IF j - 1 < 26
       THEN LET i == j - 1 - 24
            IN  Linked(allMatches[j], 27,
                       IF i = 0 THEN "player1" ELSE "player2")
     ELSE allMatches[j]]

\* the two LOSER PATHS loops
DoubleLoserPaths(allMatches) ==
  [j \in 1..Len(allMatches) |->
     IF j - 1 < 8
       THEN LET i == j - 1
            IN  [allMatches[j] EXCEPT
                   !.losersNextMatchPosition = 9 + i \div 2]
     ELSE IF j - 1 >= 12 /\ j - 1 < 16
       THEN LET i == j - 1 - 12
            IN  [allMatches[j] EXCEPT !.losersNextMatchPosition = 17 + i]
     ELSE allMatches[j]]

\* shuffled is the outcome of shuffleArray(participants); the length check
\* that throws is DoubleEliminationThrows
generateDoubleEliminationBracket(shuffled) ==
  DoubleLoserPaths(DoubleWinnerPaths(DoublePushed(shuffled)))

\* the smallest number of participants startTournament accepts for a double
\* elimination
DoubleEliminationMinimum == 8

\* the length check with the bound of startTournament
DoubleEliminationThrowsBelowMinimum(participants) ==
  Len(participants) < DoubleEliminationMinimum

DoubleEliminationThrows(participants) ==
  Len(participants) # DoubleEliminationSize

\* generateBracket throws instead of returning a bracket
generateBracketThrows(format, participants) ==
  \/ Len(participants) < 2
  \/ format = "double_elimination" /\ DoubleEliminationThrows(participants)

\* generateBracket when it returns; shuffled is the order drawn by
\* shuffleArray, which single elimination does not use
generateBracket(format, participants, shuffled) ==
  IF format = "single_elimination"
    THEN generateSingleEliminationBracket(participants)
  ELSE IF format = "double_elimination"
    THEN generateDoubleEliminationBracket(shuffled)
    ELSE generateRoundRobinMatches(shuffled)

\* --------------------------------------------------------- matchService.ts
determineInitialStatus(match) == "scheduled"

\* the rows of table matches after createMatches(tournamentId, bracket): one
\* row per generated match, addressed by its position; nextMatchId is set
\* only when a created row has the referenced position
createMatches(bracket) ==
  [j \in 1..Len(bracket) |->
     [round        |-> bracket[j].round,
      position     |-> bracket[j].position,
      player1Id    |-> bracket[j].player1Id,
      player2Id    |-> bracket[j].player2Id,
      winnerId     |-> Null,
      player1Score |-> NullScore,
      player2Score |-> NullScore,
      status       |-> determineInitialStatus(bracket[j]),
      reportedBy   |-> Null,
      confirmedBy  |-> Null,
      isTechnicalResult |-> FALSE,
      nextMatchId  |-> IF /\ bracket[j].nextMatchId # Null
                          /\ FindPosition(bracket, bracket[j].nextMatchId) # 0
                         THEN bracket[FindPosition(bracket,
                                bracket[j].nextMatchId)].position
                         ELSE Null,
      bracketType  |-> bracket[j].bracketType]]


\* ------------------------------------------------------------------- state
VARIABLES
  participants, \* the tournamentParticipants rows of the tournament in
                \* createdAt order: userId and seed
  bracket,      \* the BracketMatch list generateBracket returned
  tournament,   \* the tournaments row: format, status, winScore
  matches,      \* the matches rows of the tournament, by id
  out,          \* what the last handler call returned: op and success
  budget,       \* whether the exploration is cut after a number of
                \* storing handler calls, and how many are left
  calls         \* the confirmResult and disputeResult calls that run
                \* interleaved, each suspended at one of its awaits

vars == <<participants, bracket, tournament, matches, out, budget, calls>>

Limited(n) == [limited |-> TRUE, left |-> n]
Unlimited  == [limited |-> FALSE, left |-> 0]
CanStore   == ~budget.limited \/ budget.left > 0
Spend(b)   == IF b.limited THEN [b EXCEPT !.left = b.left - 1] ELSE b

MatchIds == DOMAIN matches
\* an id no row has
UnknownId == Len(matches) + 1
\* the users that call the handlers: the participants of the tournament and
\* the administrator
Users ==
  ({bracket[j].player1Id : j \in DOMAIN bracket}
     \cup {bracket[j].player2Id : j \in DOMAIN bracket}
     \cup {AdminId}) \ {Null}
Scores == 0..MaxScore

Result(op, ok) == [op |-> op, ok |-> ok]

\* -------------------------------------------------- tournamentService.ts
\* completeTournament(tournamentId, winnerId): only the status is stored
completeTournament(t, winnerId) == [t EXCEPT !.status = "completed"]

\* --------------------------------------------------------- matchService.ts
\* getMatch(matchId) is null
NotFound(matchId) == matchId \notin MatchIds

IsParticipant(match, userId) ==
  match.player1Id = userId \/ match.player2Id = userId

\* advanceLoserToLosersBracket(match): computes the loser and stops
advanceLoserToLosersBracket(ms, match) == ms

\* an advanceWinner that starts the target match once both its slots are filled
advanceWinnerStarting(ms, t, matchId) ==
  LET match == ms[matchId]
  IN  IF match.winnerId = Null THEN [m |-> ms, t |-> t]
      ELSE IF match.nextMatchId = Null
        THEN [m |-> ms, t |-> completeTournament(t, match.winnerId)]
      ELSE LET isTopHalf == match.position % 2 = 1
               written   ==
                 IF isTopHalf
                   THEN [ms EXCEPT ![match.nextMatchId].player1Id = match.winnerId]
                   ELSE [ms EXCEPT ![match.nextMatchId].player2Id = match.winnerId]
               target    == written[match.nextMatchId]
           IN  [m |-> IF target.player1Id # Null /\ target.player2Id # Null
                        THEN [written EXCEPT
                                ![match.nextMatchId].status = "in_progress"]
                        ELSE written,
                t |-> t]

\* advanceWinner(matchId) run on rows ms and tournament t; yields the rows
\* and the tournament it leaves
advanceWinner(ms, t, matchId) ==
  LET match == ms[matchId]
  IN  IF match.winnerId = Null THEN [m |-> ms, t |-> t]
      ELSE IF match.nextMatchId = Null
        THEN [m |-> ms, t |-> completeTournament(t, match.winnerId)]
      ELSE LET isTopHalf == match.position % 2 = 1
               written   ==
                 IF isTopHalf
                   THEN [ms EXCEPT ![match.nextMatchId].player1Id = match.winnerId]
                   ELSE [ms EXCEPT ![match.nextMatchId].player2Id = match.winnerId]
           IN  [m |-> IF t.format = "double_elimination"
                         /\ match.bracketType = "winners"
                        THEN advanceLoserToLosersBracket(written, match)
                        ELSE written,
                t |-> t]

Fail(op) ==
  /\ out' = Result(op, FALSE)
  /\ UNCHANGED <<participants, bracket, tournament, matches, budget, calls>>

\* startMatch(matchId): UPDATE ... WHERE id = matchId RETURNING
startMatch(matchId) ==
  /\ CanStore
  /\ IF NotFound(matchId) THEN Fail("start")
     ELSE /\ matches' = [matches EXCEPT ![matchId].status = "in_progress"]
          /\ out' = Result("start", TRUE)
          /\ budget' = Spend(budget)
          /\ UNCHANGED <<participants, bracket, tournament, calls>>

reportResult(matchId, reporterId, player1Score, player2Score) ==
  /\ CanStore
  /\ IF NotFound(matchId) THEN Fail("report")
     ELSE LET match    == matches[matchId]
              winScore == tournament.winScore
              winnerId == IF player1Score > player2Score
                            THEN match.player1Id ELSE match.player2Id
          IN  IF match.status = "completed" THEN Fail("report")
              ELSE IF match.status = "cancelled" THEN Fail("report")
              ELSE IF ~IsParticipant(match, reporterId) THEN Fail("report")
              ELSE IF player1Score # winScore /\ player2Score # winScore
                THEN Fail("report")
              ELSE IF player1Score = winScore /\ player2Score = winScore
                THEN Fail("report")
              ELSE /\ matches' = [matches EXCEPT
                        ![matchId].player1Score = player1Score,
                        ![matchId].player2Score = player2Score,
                        ![matchId].winnerId     = winnerId,
                        ![matchId].reportedBy   = reporterId,
                        ![matchId].status       = "pending_confirmation"]
                   /\ out' = Result("report", TRUE)
                   /\ budget' = Spend(budget)
                   /\ UNCHANGED <<participants, bracket, tournament, calls>>

\* confirmResult with the check against self-confirmation placed after the
\* UPDATE
confirmResultWriteFirst(matchId, confirmerId) ==
  /\ CanStore
  /\ IF NotFound(matchId) THEN Fail("confirm")
     ELSE LET match == matches[matchId]
              completed == [matches EXCEPT
                              ![matchId].status      = "completed",
                              ![matchId].confirmedBy = confirmerId]
              advanced  == advanceWinner(completed, tournament, matchId)
          IN  IF match.status # "pending_confirmation" THEN Fail("confirm")
              ELSE IF ~IsParticipant(match, confirmerId) THEN Fail("confirm")
              ELSE IF match.reportedBy = confirmerId
                THEN /\ matches' = completed
                     /\ out' = Result("confirm", FALSE)
                     /\ budget' = Spend(budget)
                     /\ UNCHANGED <<participants, bracket, tournament, calls>>
              ELSE /\ matches' = advanced.m
                   /\ tournament' = advanced.t
                   /\ UNCHANGED <<participants, bracket, calls>>
                   /\ out' = Result("confirm", TRUE)
                   /\ budget' = Spend(budget)

confirmResult(matchId, confirmerId) ==
  /\ CanStore
  /\ IF NotFound(matchId) THEN Fail("confirm")
     ELSE LET match == matches[matchId]
              completed == [matches EXCEPT
                              ![matchId].status      = "completed",
                              ![matchId].confirmedBy = confirmerId]
              advanced  == advanceWinner(completed, tournament, matchId)
          IN  IF match.status # "pending_confirmation" THEN Fail("confirm")
              ELSE IF match.reportedBy = confirmerId THEN Fail("confirm")
              ELSE IF ~IsParticipant(match, confirmerId) THEN Fail("confirm")
              ELSE /\ matches' = advanced.m
                   /\ tournament' = advanced.t
                   /\ UNCHANGED <<participants, bracket, calls>>
                   /\ out' = Result("confirm", TRUE)
                   /\ budget' = Spend(budget)

\* disputeResult with an UPDATE that resets the status only
disputeResultStatusOnly(matchId, userId) ==
  /\ CanStore
  /\ IF NotFound(matchId) THEN Fail("dispute")
     ELSE LET match == matches[matchId]
          IN  IF match.status # "pending_confirmation" THEN Fail("dispute")
              ELSE IF ~IsParticipant(match, userId) THEN Fail("dispute")
              ELSE /\ matches' = [matches EXCEPT
                        ![matchId].status = "in_progress"]
                   /\ out' = Result("dispute", TRUE)
                   /\ budget' = Spend(budget)
                   /\ UNCHANGED <<participants, bracket, tournament, calls>>

disputeResult(matchId, userId) ==
  /\ CanStore
  /\ IF NotFound(matchId) THEN Fail("dispute")
     ELSE LET match == matches[matchId]
          IN  IF match.status # "pending_confirmation" THEN Fail("dispute")
              ELSE IF ~IsParticipant(match, userId) THEN Fail("dispute")
              ELSE /\ matches' = [matches EXCEPT
                        ![matchId].status       = "in_progress",
                        ![matchId].player1Score = NullScore,
                        ![matchId].player2Score = NullScore,
                        ![matchId].winnerId     = Null,
                        ![matchId].reportedBy   = Null]
                   /\ out' = Result("dispute", TRUE)
                   /\ budget' = Spend(budget)
                   /\ UNCHANGED <<participants, bracket, tournament, calls>>

setTechnicalResult(matchId, winnerId, setById) ==
  /\ CanStore
  /\ IF NotFound(matchId) THEN Fail("technical")
     ELSE LET match    == matches[matchId]
              winScore == tournament.winScore
              completed == [matches EXCEPT
                 ![matchId].player1Score =
                     IF match.player1Id = winnerId THEN winScore ELSE 0,
                 ![matchId].player2Score =
                     IF match.player2Id = winnerId THEN winScore ELSE 0,
                 ![matchId].winnerId     = winnerId,
                 ![matchId].status       = "completed",
                 ![matchId].isTechnicalResult = TRUE,
                 ![matchId].confirmedBy  = setById]
              advanced == advanceWinner(completed, tournament, matchId)
          IN  IF match.status = "completed" \/ match.status = "cancelled"
                THEN Fail("technical")
              ELSE IF ~IsParticipant(match, winnerId) THEN Fail("technical")
              ELSE /\ matches' = advanced.m
                   /\ tournament' = advanced.t
                   /\ UNCHANGED <<participants, bracket, calls>>
                   /\ out' = Result("technical", TRUE)
                   /\ budget' = Spend(budget)

\* ------------------------------------------------------- timeoutService.ts
\* one iteration of the loop of checkPendingConfirmations: matchId is a
\* pending_confirmation match whose updatedAt is older than the timeout
checkPendingConfirmations(matchId) ==
  /\ CanStore
  /\ matchId \in MatchIds
  /\ matches[matchId].status = "pending_confirmation"
  /\ matches[matchId].winnerId # Null
  /\ matches[matchId].reportedBy # Null
  /\ matches' = [matches EXCEPT
        ![matchId].status      = "completed",
        ![matchId].confirmedBy = matches[matchId].reportedBy]
  /\ out' = Result("timeout", TRUE)
  /\ budget' = Spend(budget)
  /\ UNCHANGED <<participants, bracket, tournament, calls>>

\* ------------------------------------------------------------ specification
\* a call slot no handler runs in
IdleCall == [pc |-> "idle"]

\* the participants list handed to generateBracket: the user ids of the
\* rows in the order getConfirmedParticipants returns them
Participants(n) == [i \in 1..n |-> i]

\* the tournamentParticipants rows of n registered users; seed Null before
\* assignRandomSeeds
Registered(n) == [i \in 1..n |-> [userId |-> i, seed |-> Null]]

\* getConfirmedParticipants: the rows ordered by createdAt
getConfirmedParticipants(rows) == [i \in 1..Len(rows) |-> rows[i].userId]

\* assignRandomSeeds with shuffled the outcome of its shuffleArray: the row
\* of shuffled[i] gets seed i + 1 (i counted from 0)
assignRandomSeeds(rows, shuffled) ==
  [j \in 1..Len(rows) |->
     [rows[j] EXCEPT !.seed =
        CHOOSE i \in 1..Len(shuffled) : shuffled[i] = rows[j].userId]]

\* the store right after startTournamentFull: the bracket of the format is
\* persisted and the tournament is in_progress
Started(format, n, shuffled, b) ==
  /\ tournament = [format |-> format, status |-> "in_progress",
                   winScore |-> WinScore]
  /\ participants = assignRandomSeeds(Registered(n), Participants(n))
  /\ bracket = generateBracket(format, Participants(n), shuffled)
  /\ matches = createMatches(bracket)
  /\ out = Result("none", TRUE)
  /\ budget = b
  /\ calls = [c \in 1..MaxCalls |-> IdleCall]

Init ==
  \E n \in 2..MaxPlayers :
    Started("single_elimination", n, Participants(n), Limited(MaxOps))

InitRoundRobin ==
  \E n \in 2..MaxRoundRobin :
    \E shuffled \in shuffleArray(Participants(n)) :
      Started("round_robin", n, shuffled, Limited(MaxRoundRobinOps))

DoStart     == \E m \in MatchIds \cup {UnknownId} : startMatch(m)
DoReport    == \E m \in MatchIds \cup {UnknownId}, u \in Users,
                  s1 \in Scores, s2 \in Scores : reportResult(m, u, s1, s2)
DoConfirm   == \E m \in MatchIds \cup {UnknownId}, u \in Users :
                  confirmResult(m, u)
DoDispute   == \E m \in MatchIds \cup {UnknownId}, u \in Users :
                  disputeResult(m, u)
DoTechnical == \E m \in MatchIds \cup {UnknownId}, u \in Users :
                  setTechnicalResult(m, u, AdminId)
DoTimeout   == \E m \in MatchIds : checkPendingConfirmations(m)

Next ==
  \/ DoStart
  \/ DoReport
  \/ DoConfirm
  \/ DoDispute
  \/ DoTechnical
  \/ DoTimeout

Spec == Init /\ [][Next]_vars

SpecRoundRobin == InitRoundRobin /\ [][Next]_vars


\* ---------------------------------------------------------- regular play
\* The callers that drive a tournament through its regular flow: a match is
\* started once both players are known, one player reports a score the
\* score keyboard offers, the other player confirms.
BothPlayers(match) == match.player1Id # Null /\ match.player2Id # Null

\* the score buttons of the report keyboard: winScore against 0..winScore-1
OfferedScore(s1, s2) ==
  \/ s1 = tournament.winScore /\ s2 < tournament.winScore
  \/ s2 = tournament.winScore /\ s1 < tournament.winScore

PlayStart ==
  \E m \in MatchIds :
    /\ matches[m].status = "scheduled"
    /\ BothPlayers(matches[m])
    /\ startMatch(m)

PlayReport ==
  \E m \in MatchIds, u \in Users, s1 \in Scores, s2 \in Scores :
    /\ matches[m].status = "in_progress"
    /\ BothPlayers(matches[m])
    /\ IsParticipant(matches[m], u)
    /\ OfferedScore(s1, s2)
    /\ reportResult(m, u, s1, s2)

PlayConfirm ==
  \E m \in MatchIds, u \in Users :
    /\ matches[m].status = "pending_confirmation"
    /\ IsParticipant(matches[m], u)
    /\ u # matches[m].reportedBy
    /\ confirmResult(m, u)

InitPlay ==
  \E n \in 2..MaxPlayPlayers :
    Started("single_elimination", n, Participants(n), Unlimited)

NextPlay ==
  \/ PlayStart
  \/ PlayReport
  \/ PlayConfirm

SpecPlay ==
  /\ InitPlay
  /\ [][NextPlay]_vars
  /\ WF_vars(PlayStart)
  /\ WF_vars(PlayReport)
  /\ WF_vars(PlayConfirm)

\* ------------------------------------------------------------------ claims
TwoDistinctPlayers(match) ==
  BothPlayers(match) /\ match.player1Id # match.player2Id

\* the player of a match on the side whose stored score is winScore
WinScoreSide(match) ==
  IF match.player1Score = tournament.winScore THEN match.player1Id
  ELSE IF match.player2Score = tournament.winScore THEN match.player2Id
  ELSE Null

\* the generator's link of the match at position p: target position and slot
HasDownstream(p) ==
  /\ bracket[p].nextMatchId # Null
  /\ bracket[p].nextMatchId \in MatchIds

\* in rows ms the downstream match of p holds userId in the designated slot
InDesignatedSlot(ms, p, userId) ==
  IF bracket[p].nextMatchPosition = "player1"
    THEN ms[bracket[p].nextMatchId].player1Id = userId
    ELSE ms[bracket[p].nextMatchId].player2Id = userId

\* C1: on a match with two distinct players that one player has reported,
\* confirmResult by the other player leaves the match completed, won by the
\* player whose reported score is winScore, confirmedBy the confirmer, and
\* the downstream match (if any) holds that winner in the slot the generator
\* designated; confirmResult by the reporter fails and changes nothing.
C1_ReportThenConfirm ==
  [][\A m \in MatchIds, u \in Users :
       ( /\ confirmResult(m, u)
         /\ matches[m].status = "pending_confirmation"
         /\ TwoDistinctPlayers(matches[m])
         /\ IsParticipant(matches[m], u) )
       => IF u = matches[m].reportedBy
            THEN ~out'.ok /\ matches' = matches /\ tournament' = tournament
            ELSE /\ out'.ok
                 /\ matches'[m].status = "completed"
                 /\ matches'[m].winnerId = WinScoreSide(matches[m])
                 /\ matches'[m].confirmedBy = u
                 /\ HasDownstream(m)
                      => InDesignatedSlot(matches', m, WinScoreSide(matches[m]))
    ]_vars

Terminal(match) == match.status \in {"completed", "cancelled"}

\* C2: once a match is completed or cancelled no handler call changes its
\* status, its scores or its winnerId.
C2_TerminalStates ==
  [][\A m \in MatchIds :
       Terminal(matches[m])
       => /\ matches'[m].status = matches[m].status
          /\ matches'[m].player1Score = matches[m].player1Score
          /\ matches'[m].player2Score = matches[m].player2Score
          /\ matches'[m].winnerId = matches[m].winnerId
    ]_vars

\* C3: startMatch succeeds, putting the match in_progress, only on a
\* scheduled match with both players assigned; otherwise it fails and
\* leaves the match unchanged.
C3_StartGuard ==
  [][\A m \in MatchIds :
       startMatch(m)
       => IF matches[m].status = "scheduled" /\ BothPlayers(matches[m])
            THEN out'.ok /\ matches'[m].status = "in_progress"
            ELSE ~out'.ok /\ matches'[m] = matches[m]
    ]_vars

\* C4: reportResult on a match that is not in_progress, or by a user who is
\* not one of its players, fails and leaves scores, winnerId, reportedBy and
\* status as they were.
C4_ReportGuard ==
  [][\A m \in MatchIds, u \in Users, s1 \in Scores, s2 \in Scores :
       ( /\ reportResult(m, u, s1, s2)
         /\ \/ matches[m].status # "in_progress"
            \/ ~IsParticipant(matches[m], u) )
       => /\ ~out'.ok
          /\ matches'[m] = matches[m]
    ]_vars

\* C5: on an in_progress match reported by one of its players, reportResult
\* accepts the score pair exactly when one score equals winScore and the
\* other is strictly less, and then records as winner the player on the
\* side whose score equals winScore.
C5_ScoreValidation ==
  [][\A m \in MatchIds, u \in Users, s1 \in Scores, s2 \in Scores :
       ( /\ reportResult(m, u, s1, s2)
         /\ matches[m].status = "in_progress"
         /\ TwoDistinctPlayers(matches[m])
         /\ IsParticipant(matches[m], u) )
       => /\ out'.ok <=> OfferedScore(s1, s2)
          /\ out'.ok => /\ matches'[m].status = "pending_confirmation"
                        /\ matches'[m].winnerId = WinScoreSide(matches'[m])
    ]_vars


\* the last round of the bracket and its match, the final
LastRound == matches[Len(matches)].round
FinalId == CHOOSE m \in MatchIds : matches[m].round = LastRound

\* C6: in a single elimination the tournament is completed only when the
\* match of the last round is completed.
C6_OnlyFinalCompletes ==
  tournament.status = "completed" => matches[FinalId].status = "completed"

\* C7: when every match that holds two players is started, reported and
\* confirmed, the final eventually holds two players and is completed, and
\* the tournament is completed.
C7_ChampionEventually ==
  <>( /\ BothPlayers(matches[FinalId])
      /\ matches[FinalId].status = "completed"
      /\ matches[FinalId].winnerId # Null
      /\ tournament.status = "completed" )

\* C8: a round robin tournament is completed only when all of its matches
\* are completed.
C8_RoundRobinCompletion ==
  tournament.status = "completed"
    => \A m \in MatchIds : matches[m].status = "completed"

\* the winner of match m has been advanced in rows ms and tournament t
Advanced(ms, t, m) ==
  IF ms[m].nextMatchId = Null
    THEN t.status = "completed"
    ELSE \/ ms[ms[m].nextMatchId].player1Id = ms[m].winnerId
         \/ ms[ms[m].nextMatchId].player2Id = ms[m].winnerId

\* C9: every transition of a match into completed is made by confirmResult
\* or setTechnicalResult and comes with the advancement of its winner.
C9_CompletionAdvances ==
  [][\A m \in MatchIds :
       (matches[m].status # "completed" /\ matches'[m].status = "completed")
       => /\ out'.op \in {"confirm", "technical"}
          /\ Advanced(matches', tournament', m)
    ]_vars


\* ------------------------------------------------- interleaved handler calls
\* confirmResult and disputeResult suspend at every await: after
\* getMatch(matchId) resolved (pc = "read", match is the row it returned),
\* and confirmResult once more after its UPDATE, before advanceWinner
\* (pc = "written").  Other calls run while a call is suspended.  A call
\* that returned keeps its result (pc = "done").
Calls == 1..MaxCalls

\* another call that has read the same row and not yet written, if any
ReaderOf(matchId, c) ==
  IF \E d \in Calls \ {c} : calls[d].pc = "read" /\ calls[d].matchId = matchId
    THEN CHOOSE d \in Calls \ {c} :
           calls[d].pc = "read" /\ calls[d].matchId = matchId
    ELSE 0

\* const match = await getMatch(matchId)
CallRead(c, op, matchId, userId) ==
  /\ calls[c].pc = "idle"
  /\ matchId \in MatchIds
  /\ calls' = [calls EXCEPT ![c] =
       [pc |-> "read", op |-> op, matchId |-> matchId, userId |-> userId,
        match |-> matches[matchId], with |-> ReaderOf(matchId, c),
        ok |-> FALSE]]
  /\ UNCHANGED <<participants, bracket, tournament, matches, out, budget>>

Return(c, ok) ==
  /\ calls' = [calls EXCEPT ![c].pc = "done", ![c].ok = ok]
  /\ out' = Result(calls[c].op, ok)

\* the checks on the row that was read, then the UPDATE of the stored row
CallWrite(c) ==
  /\ calls[c].pc = "read"
  /\ LET match   == calls[c].match
         matchId == calls[c].matchId
         userId  == calls[c].userId
     IN  IF match.status # "pending_confirmation"
           THEN Return(c, FALSE) /\ UNCHANGED matches
         ELSE IF calls[c].op = "confirm" /\ match.reportedBy = userId
           THEN Return(c, FALSE) /\ UNCHANGED matches
         ELSE IF ~IsParticipant(match, userId)
           THEN Return(c, FALSE) /\ UNCHANGED matches
         ELSE IF calls[c].op = "confirm"
           THEN /\ matches' = [matches EXCEPT
                     ![matchId].status      = "completed",
                     ![matchId].confirmedBy = userId]
                /\ calls' = [calls EXCEPT ![c].pc = "written"]
                /\ UNCHANGED out
           ELSE /\ matches' = [matches EXCEPT
                     ![matchId].status       = "in_progress",
                     ![matchId].player1Score = NullScore,
                     ![matchId].player2Score = NullScore,
                     ![matchId].winnerId     = Null,
                     ![matchId].reportedBy   = Null]
                /\ Return(c, TRUE)
  /\ UNCHANGED <<participants, bracket, tournament, budget>>

\* await advanceWinner(matchId); return { success: true }
CallAdvance(c) ==
  /\ calls[c].pc = "written"
  /\ LET advanced == advanceWinner(matches, tournament, calls[c].matchId)
     IN  /\ matches' = advanced.m
         /\ tournament' = advanced.t
  /\ Return(c, TRUE)
  /\ UNCHANGED <<participants, bracket, budget>>

NoCalls == \A c \in Calls : calls[c].pc = "idle"

RaceStart  == NoCalls /\ PlayStart
RaceReport == NoCalls /\ PlayReport
RaceRead ==
  \E c \in Calls, op \in {"confirm", "dispute"}, m \in MatchIds, u \in Users :
    /\ matches[m].status = "pending_confirmation"
    /\ CallRead(c, op, m, u)
RaceWrite   == \E c \in Calls : CallWrite(c)
RaceAdvance == \E c \in Calls : CallAdvance(c)

InitRace ==
  \E n \in 2..MaxRacePlayers :
    Started("single_elimination", n, Participants(n), Unlimited)

NextRace ==
  \/ RaceStart
  \/ RaceReport
  \/ RaceRead
  \/ RaceWrite
  \/ RaceAdvance

SpecRace == InitRace /\ [][NextRace]_vars

\* C10: of a confirmResult call and a disputeResult or second confirmResult
\* call that run concurrently against the same pending_confirmation match
\* (the second reads the row before the first has written), at most one
\* reports success.
C10_OneRaceWinner ==
  \A c \in Calls :
    ( /\ calls[c].pc = "done"
      /\ calls[c].with # 0
      /\ calls[calls[c].with].pc = "done"
      /\ "confirm" \in {calls[c].op, calls[calls[c].with].op} )
    => ~(calls[c].ok /\ calls[calls[c].with].ok)


\* ------------------------------------------------------ tournament start
Reverse(array) == [i \in 1..Len(array) |-> array[Len(array) + 1 - i]]

\* the outcomes of shuffleArray(array) that are explored: all of them for an
\* array of at most MaxShuffled elements, for a longer one the order kept,
\* the order reversed and the last element moved behind the first
shuffleOutcomes(array) ==
  IF Len(array) <= MaxShuffled THEN shuffleArray(array)
  ELSE {array, Reverse(array), Rotate(array)}

\* startTournament throws instead of storing the status in_progress
startTournamentThrows(format, list) ==
  format = "double_elimination" /\ Len(list) < DoubleEliminationMinimum

\* POST /:id/start: canStartTournament, then startTournamentFull.  seeded and
\* shuffled are the outcomes of the shuffleArray calls of assignRandomSeeds
\* and of the generator.  The notifications startTournamentFull sends last
\* store nothing.
startTournamentFull(seeded, shuffled) ==
  LET list == getConfirmedParticipants(participants)
  IN  IF tournament.status # "registration_closed" \/ Len(list) < 2
        THEN Fail("startTournament")
      ELSE IF generateBracketThrows(tournament.format, list)
        THEN /\ participants' = assignRandomSeeds(participants, seeded)
             /\ out' = Result("startTournament", FALSE)
             /\ UNCHANGED <<bracket, tournament, matches, budget, calls>>
      ELSE IF startTournamentThrows(tournament.format, list)
        THEN /\ participants' = assignRandomSeeds(participants, seeded)
             /\ bracket' = generateBracket(tournament.format, list, shuffled)
             /\ matches' = createMatches(bracket')
             /\ out' = Result("startTournament", FALSE)
             /\ UNCHANGED <<tournament, budget, calls>>
      ELSE /\ participants' = assignRandomSeeds(participants, seeded)
           /\ bracket' = generateBracket(tournament.format, list, shuffled)
           /\ matches' = createMatches(bracket')
           /\ tournament' = [tournament EXCEPT !.status = "in_progress"]
           /\ out' = Result("startTournament", TRUE)
           /\ UNCHANGED <<budget, calls>>

DoStartTournament ==
  LET list == getConfirmedParticipants(participants)
  IN  \E seeded \in shuffleOutcomes(list) :
        \E shuffled \in IF tournament.format = "single_elimination"
                           THEN {list} ELSE shuffleOutcomes(list) :
          startTournamentFull(seeded, shuffled)

\* the administrator sets a technical result on a match that holds two
\* players, naming one of them
PlayTechnical ==
  \E m \in MatchIds, u \in Users :
    /\ BothPlayers(matches[m])
    /\ IsParticipant(matches[m], u)
    /\ setTechnicalResult(m, u, AdminId)

Formats == {"single_elimination", "double_elimination", "round_robin"}

\* a tournament whose registration is closed, with n registered participants
InitGenerate ==
  \E format \in Formats, n \in 1..MaxGeneratePlayers :
    /\ format = "round_robin" => n <= MaxGenerateRoundRobin
    /\ tournament = [format |-> format, status |-> "registration_closed",
                     winScore |-> WinScore]
    /\ participants = Registered(n)
    /\ bracket = <<>>
    /\ matches = <<>>
    /\ out = Result("none", TRUE)
    /\ budget = Limited(MaxGenerateOps)
    /\ calls = [c \in 1..MaxCalls |-> IdleCall]

NextGenerate ==
  \/ DoStartTournament
  \/ PlayStart
  \/ PlayTechnical

SpecGenerate == InitGenerate /\ [][NextGenerate]_vars

\* ---------------------------------------------- double elimination play
InitDouble ==
  \E shuffled \in shuffleOutcomes(Participants(DoubleEliminationSize)) :
    Started("double_elimination", DoubleEliminationSize, shuffled,
            Limited(MaxDoubleOps))

NextDouble ==
  \/ PlayStart
  \/ PlayReport
  \/ PlayConfirm
  \/ PlayTechnical

SpecDouble == InitDouble /\ [][NextDouble]_vars


\* ------------------------------------------------- claims on advancement
\* match m turns completed in this step by a handler that advances
Completes(m) ==
  /\ matches[m].status # "completed"
  /\ matches'[m].status = "completed"
  /\ out'.op \in {"confirm", "technical"}

\* the slot of the downstream match of p that the generator did not
\* designate for p is the same in rows before and after
OtherSlotKept(before, after, p) ==
  IF bracket[p].nextMatchPosition = "player1"
    THEN after[bracket[p].nextMatchId].player2Id
           = before[bracket[p].nextMatchId].player2Id
    ELSE after[bracket[p].nextMatchId].player1Id
           = before[bracket[p].nextMatchId].player1Id

\* C11: when a match with a downstream match is completed, its winner is
\* written into the slot of the downstream match that the generator
\* designated for it (nextMatchPosition), and the other slot of the
\* downstream match, which belongs to the other feeding match, is not
\* overwritten.
C11_DesignatedSlot ==
  [][\A m \in MatchIds :
       (Completes(m) /\ HasDownstream(m))
       => /\ InDesignatedSlot(matches', m, matches'[m].winnerId)
          /\ OtherSlotKept(matches, matches', m)
    ]_vars

\* the player of a completed two-player match that did not win it
Loser(match) ==
  IF match.player1Id = match.winnerId THEN match.player2Id
  ELSE match.player1Id

\* C12: in a double elimination, when a winners-bracket match with two
\* players is completed, its loser is in a slot of the losers-bracket match
\* the generator named as its loser route (losersNextMatchPosition); with no
\* loser route the loser is in no match of a later round.
C12_LoserRouted ==
  [][\A m \in MatchIds :
       ( /\ Completes(m)
         /\ tournament.format = "double_elimination"
         /\ bracket[m].bracketType = "winners"
         /\ TwoDistinctPlayers(matches[m]) )
       => IF bracket[m].losersNextMatchPosition # Null
            THEN IsParticipant(matches'[bracket[m].losersNextMatchPosition],
                               Loser(matches'[m]))
            ELSE \A k \in MatchIds :
                   matches'[k].round > matches'[m].round
                     => ~IsParticipant(matches'[k], Loser(matches'[m]))
    ]_vars


\* --------------------------------------------------- claims on generation
\* the start has generated and stored a bracket of the given format
Generated(format) ==
  /\ tournament.format = format
  /\ tournament.status = "in_progress"
  /\ out = Result("startTournament", TRUE)

\* the round of the last generated match
BracketRounds == bracket[Len(bracket)].round

\* C13: in a generated single elimination bracket every match outside the
\* last round has a nextMatchId that is the position of a generated match of
\* the next round, and the match of the last round is the only match
\* without nextMatchId.
C13_ForwardLinks ==
  Generated("single_elimination")
  => /\ \A j \in DOMAIN bracket :
          IF bracket[j].round = BracketRounds
            THEN bracket[j].nextMatchId = Null
            ELSE \E k \in DOMAIN bracket :
                   /\ bracket[k].position = bracket[j].nextMatchId
                   /\ bracket[k].round = bracket[j].round + 1
     /\ Cardinality({j \in DOMAIN bracket : bracket[j].nextMatchId = Null}) = 1

\* the size of the bracket for n >= 2 participants: the power of two 2^k
\* that is at least n while its half is less than n (k <= n as n < 2^n)
SizeFor(n) ==
  CHOOSE x \in n..(2 * n) : (\E k \in 0..n : 2 ^ k = x) /\ x \div 2 < n

\* C14: single elimination generation for N participants produces one match
\* less than the smallest power of two S >= N, in rounds 1..log2(S), round
\* r holding S / 2^r matches.
C14_SingleEliminationSize ==
  Generated("single_elimination")
  => LET size   == SizeFor(Len(participants))
         rounds == CHOOSE k \in 0..Len(participants) : 2 ^ k = size
     IN  /\ Len(bracket) = size - 1
         /\ {bracket[j].round : j \in DOMAIN bracket} = 1..rounds
         /\ \A r \in 1..rounds :
              Cardinality({j \in DOMAIN bracket : bracket[j].round = r})
                = size \div (2 ^ r)

\* a bracket generated for a number of participants that is no power of two
C14_Witness ==
  /\ Generated("single_elimination")
  /\ Len(participants) = 5
  /\ Len(bracket) = 7


\* the matches (as indices of bracket b) a player passes through from match
\* j by winning every match, following nextMatchId
RECURSIVE PathFrom(_, _)
PathFrom(b, j) ==
  LET k == IF b[j].nextMatchId = Null THEN 0
           ELSE FindPosition(b, b[j].nextMatchId)
  IN  IF k = 0 THEN {j} ELSE {j} \cup PathFrom(b, k)

\* the round-1 match the generator put the user in
FirstMatch(b, userId) ==
  CHOOSE j \in DOMAIN b : b[j].round = 1 /\ IsParticipant(b[j], userId)

\* the participant whose stored seed is i
SeedOf(i) ==
  participants[CHOOSE j \in DOMAIN participants : participants[j].seed = i]
    .userId

\* the matches both seed 1 and seed 2 can reach
TopSeedsMeet ==
  PathFrom(bracket, FirstMatch(bracket, SeedOf(1)))
    \cap PathFrom(bracket, FirstMatch(bracket, SeedOf(2)))

\* C15: in a single elimination bracket generated for N participants, N a
\* power of two and at least 4, every match that both seed 1 and seed 2 can
\* reach along the advancement links is in the last round.
C15_TopSeedsApart ==
  ( /\ Generated("single_elimination")
    /\ Len(participants) >= 4
    /\ Len(participants) = SizeFor(Len(participants)) )
  => \A j \in TopSeedsMeet : bracket[j].round = BracketRounds


\* a match of round 1 that holds exactly one player
IsBye(match) ==
  /\ match.round = 1
  /\ (match.player1Id = Null) # (match.player2Id = Null)

\* the player of a bye match
ByePlayer(match) ==
  IF match.player1Id # Null THEN match.player1Id ELSE match.player2Id

\* C16: in a started single elimination every round-1 match that holds
\* exactly one player is completed (never scheduled or in_progress) and its
\* player is in the designated slot of the downstream match.
C16_ByesResolved ==
  (tournament.format = "single_elimination" /\ tournament.status = "in_progress")
  => \A m \in MatchIds :
       (IsBye(matches[m]) /\ HasDownstream(m))
       => /\ matches[m].status = "completed"
          /\ InDesignatedSlot(matches, m, ByePlayer(matches[m]))


Route(round, bracketType, next, slot, loserNext) ==
  [round |-> round, bracketType |-> bracketType, nextMatchId |-> next,
   nextMatchPosition |-> slot, losersNextMatchPosition |-> loserNext]

\* the static routing table of the 16-entrant double elimination, row p for
\* the match at position p; 0 and "none" for no route
DoubleRouting ==
  << Route(1, "winners", 13, "player1", 9),
     Route(1, "winners", 13, "player2", 9),
     Route(1, "winners", 14, "player1", 10),
     Route(1, "winners", 14, "player2", 10),
     Route(1, "winners", 15, "player1", 11),
     Route(1, "winners", 15, "player2", 11),
     Route(1, "winners", 16, "player1", 12),
     Route(1, "winners", 16, "player2", 12),
     Route(1, "losers", 17, "player1", 0),
     Route(1, "losers", 18, "player1", 0),
     Route(1, "losers", 19, "player1", 0),
     Route(1, "losers", 20, "player1", 0),
     Route(2, "winners", 21, "player1", 17),
     Route(2, "winners", 22, "player1", 18),
     Route(2, "winners", 23, "player1", 19),
     Route(2, "winners", 24, "player1", 20),
     Route(2, "losers", 21, "player2", 0),
     Route(2, "losers", 22, "player2", 0),
     Route(2, "losers", 23, "player2", 0),
     Route(2, "losers", 24, "player2", 0),
     Route(3, "winners", 25, "player1", 0),
     Route(3, "winners", 25, "player2", 0),
     Route(3, "winners", 26, "player1", 0),
     Route(3, "winners", 26, "player2", 0),
     Route(4, "winners", 27, "player1", 0),
     Route(4, "winners", 27, "player2", 0),
     Route(5, "winners", 0, "none", 0) >>

\* C17: double elimination generation for 16 participants yields 27 matches
\* at positions 1..27 in rounds 1..5, linked as the static routing table says,
\* the 16 participants filling the 8 round-1 upper matches and every other
\* match empty; for any other number of participants generation fails: no
\* bracket, no match, the tournament not in_progress.
C17_DoubleEliminationTable ==
  /\ Generated("double_elimination")
     => /\ Len(participants) = 16
        /\ Len(bracket) = 27
        /\ \A p \in 1..27 :
             /\ bracket[p].position = p
             /\ [f \in DOMAIN DoubleRouting[p] |-> bracket[p][f]]
                  = DoubleRouting[p]
             /\ p > 8 => bracket[p].player1Id = Null
                          /\ bracket[p].player2Id = Null
        /\ {bracket[p].player1Id : p \in 1..8}
             \cup {bracket[p].player2Id : p \in 1..8}
               = {participants[i].userId : i \in 1..16}
  /\ (tournament.format = "double_elimination" /\ Len(participants) # 16)
     => /\ bracket = <<>>
        /\ matches = <<>>
        /\ tournament.status = "registration_closed"

\* a generated double elimination bracket, with the link of position 14
C17_Witness ==
  /\ Generated("double_elimination")
  /\ Len(bracket) = 27
  /\ bracket[14].nextMatchId = 22
  /\ bracket[14].nextMatchPosition = "player1"


\* C18: round robin generation for N participants produces N(N-1)/2
\* matches at positions 1..N(N-1)/2, in rounds 1..N-1 for even N and 1..N for
\* odd N, each between two participants, none with the synthetic bye.
C18_RoundRobinSize ==
  Generated("round_robin")
  => LET n == Len(participants)
         entrants == {participants[i].userId : i \in 1..n}
     IN  /\ 2 * Len(bracket) = n * (n - 1)
         /\ {bracket[j].position : j \in DOMAIN bracket} = 1..Len(bracket)
         /\ {bracket[j].round : j \in DOMAIN bracket}
              = 1..(IF n % 2 = 0 THEN n - 1 ELSE n)
         /\ \A j \in DOMAIN bracket :
              /\ bracket[j].player1Id \in entrants
              /\ bracket[j].player2Id \in entrants
              /\ bracket[j].player1Id # ByeId
              /\ bracket[j].player2Id # ByeId

\* a round robin generated for an odd number of participants
C18_Witness ==
  /\ Generated("round_robin")
  /\ Len(participants) = 5
  /\ Len(bracket) = 10


\* ------------------------------------------------ claims on the handlers
\* C19: disputeResult by a player of a pending_confirmation match succeeds
\* and leaves the match in_progress with player1Score, player2Score,
\* winnerId and reportedBy cleared and its other fields as they were; every
\* other match and the tournament are unchanged.
C19_DisputeClears ==
  [][\A m \in MatchIds, u \in Users :
       ( /\ disputeResult(m, u)
         /\ matches[m].status = "pending_confirmation"
         /\ IsParticipant(matches[m], u) )
       => /\ out' = Result("dispute", TRUE)
          /\ matches'[m].status = "in_progress"
          /\ matches'[m].player1Score = NullScore
          /\ matches'[m].player2Score = NullScore
          /\ matches'[m].winnerId = Null
          /\ matches'[m].reportedBy = Null
          /\ matches'[m].player1Id = matches[m].player1Id
          /\ matches'[m].player2Id = matches[m].player2Id
          /\ matches'[m].nextMatchId = matches[m].nextMatchId
          /\ \A k \in MatchIds \ {m} : matches'[k] = matches[k]
          /\ tournament' = tournament
    ]_vars

\* a reported match that a dispute has returned to in_progress
C19_Witness ==
  /\ out = Result("dispute", TRUE)
  /\ \E m \in MatchIds :
       /\ matches[m].status = "in_progress"
       /\ TwoDistinctPlayers(matches[m])
       /\ matches[m].winnerId = Null
       /\ matches[m].player1Score = NullScore


\* C20: in a bracket format, setTechnicalResult on a scheduled match, naming
\* one of its players, succeeds: the match is completed as a technical
\* result won by the named player, winScore on the winner's side and 0 on
\* the other; the winner then is in a match of a later round, or, when the
\* match is the one of the last round, the tournament is completed.
C20_TechnicalAdvances ==
  [][\A m \in MatchIds, u \in Users :
       ( /\ setTechnicalResult(m, u, AdminId)
         /\ tournament.format # "round_robin"
         /\ matches[m].status = "scheduled"
         /\ IsParticipant(matches[m], u) )
       => /\ out' = Result("technical", TRUE)
          /\ matches'[m].status = "completed"
          /\ matches'[m].isTechnicalResult
          /\ matches'[m].winnerId = u
          /\ matches'[m].player1Score
               = (IF matches[m].player1Id = u THEN tournament.winScore ELSE 0)
          /\ matches'[m].player2Score
               = (IF matches[m].player2Id = u THEN tournament.winScore ELSE 0)
          /\ IF matches[m].round = LastRound
               THEN tournament'.status = "completed"
               ELSE /\ tournament' = tournament
                    /\ \E k \in MatchIds :
                         /\ matches'[k].round > matches[m].round
                         /\ IsParticipant(matches'[k], u)
    ]_vars


\* the handlers that validate a request before they store anything
Validating == {"report", "confirm", "dispute", "technical"}

\* C21: a call of reportResult, confirmResult, disputeResult or
\* setTechnicalResult that returns a failure leaves every match and the
\* tournament as they were.
C21_FailureChangesNothing ==
  [][(out'.op \in Validating /\ ~out'.ok)
       => matches' = matches /\ tournament' = tournament]_vars

\* a confirmation by the reporter has been refused; the match still waits
C21_Witness ==
  /\ out = Result("confirm", FALSE)
  /\ \E m \in MatchIds :
       /\ matches[m].status = "pending_confirmation"
       /\ matches[m].reportedBy # Null
       /\ matches[m].confirmedBy = Null


\* C22: no match is completed with a winner while its downstream match
\* does not hold that winner in the designated slot, not even between the
\* UPDATE of confirmResult and its advanceWinner.
C22_ConfirmAdvanceAtomic ==
  \A m \in MatchIds :
    ( /\ matches[m].status = "completed"
      /\ matches[m].winnerId # Null
      /\ HasDownstream(m) )
    => InDesignatedSlot(matches, m, matches[m].winnerId)


\* ------------------------------------------------ interleaved start requests
\* POST /:id/start suspends at its awaits: after canStartTournament accepted
\* the request (pc = "checked"), after assignRandomSeeds (pc = "seeded"),
\* after createMatches (pc = "created"); startTournament stores the status
\* last.  Other requests run while a request is suspended.

\* createMatches on a table that holds the rows ms already: the inserted rows
\* get the ids that follow, and so do their nextMatchId references
createMatchesAfter(ms, b) ==
  ms \o [j \in 1..Len(b) |->
          [createMatches(b)[j] EXCEPT
             !.nextMatchId = IF @ = Null THEN Null ELSE Len(ms) + @]]

\* a start request: whether it has assigned seeds, and the participants it
\* read and the bracket it generated from them
StartCall(pc, seeded, list, b, ok) ==
  [pc |-> pc, op |-> "startTournament", seeded |-> seeded, list |-> list,
   bracket |-> b, ok |-> ok]

\* canStartTournament(id)
StartCheck(c) ==
  /\ calls[c].pc = "idle"
  /\ IF tournament.status # "registration_closed" \/ Len(participants) < 2
       THEN /\ calls' = [calls EXCEPT
                           ![c] = StartCall("done", FALSE, <<>>, <<>>, FALSE)]
            /\ out' = Result("startTournament", FALSE)
       ELSE /\ calls' = [calls EXCEPT
                           ![c] = StartCall("checked", FALSE, <<>>, <<>>, FALSE)]
            /\ UNCHANGED out
  /\ UNCHANGED <<participants, bracket, tournament, matches, budget>>

\* await assignRandomSeeds(tournamentId)
StartSeed(c, seeded) ==
  /\ calls[c].pc = "checked"
  /\ participants' = assignRandomSeeds(participants, seeded)
  /\ calls' = [calls EXCEPT ![c].pc = "seeded", ![c].seeded = TRUE]
  /\ UNCHANGED <<bracket, tournament, matches, out, budget>>

\* getConfirmedParticipants, generateBracket, createMatches
StartCreate(c, shuffled) ==
  /\ calls[c].pc = "seeded"
  /\ LET list == getConfirmedParticipants(participants)
     IN  IF generateBracketThrows(tournament.format, list)
           THEN /\ calls' = [calls EXCEPT ![c].pc = "done"]
                /\ out' = Result("startTournament", FALSE)
                /\ UNCHANGED <<bracket, matches>>
           ELSE /\ bracket' = generateBracket(tournament.format, list, shuffled)
                /\ matches' = createMatchesAfter(matches, bracket')
                /\ calls' = [calls EXCEPT ![c].pc = "created",
                                          ![c].list = participants,
                                          ![c].bracket = bracket']
                /\ UNCHANGED out
  /\ UNCHANGED <<participants, tournament, budget>>

\* await startTournament(tournamentId); return
StartStatus(c) ==
  /\ calls[c].pc = "created"
  /\ IF startTournamentThrows(tournament.format,
                              getConfirmedParticipants(participants))
       THEN /\ calls' = [calls EXCEPT ![c].pc = "done"]
            /\ out' = Result("startTournament", FALSE)
            /\ UNCHANGED tournament
       ELSE /\ tournament' = [tournament EXCEPT !.status = "in_progress"]
            /\ calls' = [calls EXCEPT ![c].pc = "done", ![c].ok = TRUE]
            /\ out' = Result("startTournament", TRUE)
  /\ UNCHANGED <<participants, bracket, matches, budget>>

StartRaceCheck == \E c \in Calls : StartCheck(c)
StartRaceSeed ==
  \E c \in Calls :
    \E seeded \in shuffleOutcomes(getConfirmedParticipants(participants)) :
      StartSeed(c, seeded)
StartRaceCreate ==
  \E c \in Calls :
    \E shuffled \in shuffleOutcomes(getConfirmedParticipants(participants)) :
      StartCreate(c, shuffled)
StartRaceStatus == \E c \in Calls : StartStatus(c)

InitStartRace ==
  \E format \in Formats, n \in 1..MaxStartPlayers :
    /\ tournament = [format |-> format, status |-> "registration_closed",
                     winScore |-> WinScore]
    /\ participants = Registered(n)
    /\ bracket = <<>>
    /\ matches = <<>>
    /\ out = Result("none", TRUE)
    /\ budget = Unlimited
    /\ calls = [c \in 1..MaxCalls |-> IdleCall]

NextStartRace ==
  \/ StartRaceCheck
  \/ StartRaceSeed
  \/ StartRaceCreate
  \/ StartRaceStatus

SpecStartRace == InitStartRace /\ [][NextStartRace]_vars

\* C23: of the start requests for one tournament at most one gets to assign
\* seeds and to create matches, so no two stored matches have the same
\* position.
C23_StartOnce ==
  /\ Cardinality({c \in Calls : calls[c].pc # "idle" /\ calls[c].seeded}) <= 1
  /\ \A i, j \in MatchIds :
       matches[i].position = matches[j].position => i = j


\* the start cannot generate a bracket for the registered participants
CannotGenerate ==
  \/ Len(participants) < 2
  \/ tournament.format = "double_elimination" /\ Len(participants) # 16

\* C24: when bracket generation fails in the start (fewer than 2
\* participants, or a double elimination with other than 16), no match is
\* stored and the tournament is not in_progress.
C24_FailedGenerationStoresNothing ==
  CannotGenerate => matches = <<>> /\ tournament.status # "in_progress"

\* a start of a double elimination with 15 participants has failed
C24_Witness ==
  /\ out = Result("startTournament", FALSE)
  /\ tournament.format = "double_elimination"
  /\ Len(participants) = 15
  /\ participants[1].seed # Null
  /\ matches = <<>>


\* the start request c has called generateBracket and it returned
HasGenerated(c) == calls[c].pc # "idle" /\ calls[c].bracket # <<>>

\* C25: two calls of generateBracket with the same format and the same
\* ordered participant list return the same match list.
C25_GenerationIsPure ==
  \A c, d \in Calls :
    ( /\ HasGenerated(c)
      /\ HasGenerated(d)
      /\ calls[c].list = calls[d].list )
    => calls[c].bracket = calls[d].bracket


\* ----------------------------------------------- tournament completion query
\* allMatches.find(...) where found are the ids of the rows that satisfy the
\* predicate: the first of them in the order of getTournamentMatches (by
\* round and position, as the ids are); Null when there is none
FindFirst(found) ==
  IF found = {} THEN Null
  ELSE CHOOSE m \in found : \A k \in found : m <= k

\* found?.status === "completed"
FoundCompleted(ms, m) == m # Null /\ ms[m].status = "completed"

checkTournamentCompletion(ms, t) ==
  LET completedMatches == {m \in DOMAIN ms : ms[m].status = "completed"}
      finalMatches == {m \in DOMAIN ms : /\ ms[m].nextMatchId = Null
                                          /\ ms[m].bracketType = "winners"}
      grandFinals  == {m \in DOMAIN ms : ms[m].bracketType = "grand_final"}
  IN  IF t.format = "single_elimination"
        THEN FoundCompleted(ms, FindFirst(finalMatches))
      ELSE IF t.format = "double_elimination"
        THEN FoundCompleted(ms, FindFirst(grandFinals))
      ELSE IF t.format = "round_robin"
        THEN Cardinality(completedMatches) = Len(ms)
      ELSE FALSE

\* the administrator sets a technical result on any match, naming a player
\* it holds
AdminTechnical ==
  \E m \in MatchIds, u \in Users :
    /\ IsParticipant(matches[m], u)
    /\ setTechnicalResult(m, u, AdminId)

InitDoubleAdmin ==
  Started("double_elimination", DoubleEliminationSize,
          Participants(DoubleEliminationSize), Limited(MaxDoubleAdminOps))

NextDoubleAdmin == AdminTechnical

SpecDoubleAdmin == InitDoubleAdmin /\ [][NextDoubleAdmin]_vars

\* the tournament is finished for its format
Finished ==
  IF tournament.format = "round_robin"
    THEN \A m \in MatchIds : matches[m].status = "completed"
    ELSE \E m \in MatchIds :
           /\ matches[m].round = LastRound
           /\ matches[m].status = "completed"

\* C26: checkTournamentCompletion returns true exactly when the tournament
\* is finished for its format: the match of the last round (the final, the
\* round-5 match of a double elimination) is completed, or every match of a
\* round robin is.
C26_CompletionQuery ==
  matches # <<>> => (checkTournamentCompletion(matches, tournament) <=> Finished)

\* the generated matches two participants meet in
Meetings(a, b) ==
  {j \in DOMAIN bracket :
     {bracket[j].player1Id, bracket[j].player2Id} = {a, b}}

\* the generated matches of a round a participant plays in
PlaysIn(a, round) ==
  {j \in DOMAIN bracket :
     /\ bracket[j].round = round
     /\ a \in {bracket[j].player1Id, bracket[j].player2Id}}

\* C27: a generated round robin is all against all: every unordered pair of
\* distinct participants meets in exactly one match, and no participant plays
\* two matches of the same round.
C27_AllAgainstAll ==
  Generated("round_robin")
  => LET entrants == {participants[i].userId : i \in DOMAIN participants}
     IN  /\ \A a, b \in entrants :
               a # b => Cardinality(Meetings(a, b)) = 1
         /\ \A a \in entrants :
               Cardinality(Meetings(a, a)) = 0
         /\ \A a \in entrants, j \in DOMAIN bracket :
               Cardinality(PlaysIn(a, bracket[j].round)) <= 1

\* a round robin generated for four participants: three rounds of two
\* matches, the first participant meeting each of the others
C27_Witness ==
  /\ Generated("round_robin")
  /\ Len(participants) = 4
  /\ Len(bracket) = 6
  /\ \A r \in 1..3 : Cardinality(PlaysIn(participants[1].userId, r)) = 1

\* C28: when the winner of a completed match is advanced, the target match
\* changes in one player slot only, which receives the winner: its status
\* stays what it was (scheduled, also when both slots are now filled), its
\* other slot, scores, winnerId and remaining fields are unchanged, and no
\* third match changes.
C28_AdvanceWritesOneSlot ==
  [][\A m \in MatchIds :
       (Completes(m) /\ HasDownstream(m))
       => LET target == matches[m].nextMatchId
              winner == matches'[m].winnerId
          IN  /\ \/ matches'[target]
                      = [matches[target] EXCEPT !.player1Id = winner]
                  \/ matches'[target]
                      = [matches[target] EXCEPT !.player2Id = winner]
              /\ matches[target].status = "scheduled"
                   => matches'[target].status = "scheduled"
              /\ \A k \in MatchIds \ {m, target} : matches'[k] = matches[k]
    ]_vars

\* a completed match has just been advanced into a target that now holds
\* two players and is still scheduled
C28_Witness ==
  /\ out.op \in {"confirm", "technical"}
  /\ out.ok
  /\ \E m \in MatchIds :
       /\ matches[m].status = "completed"
       /\ HasDownstream(m)
       /\ LET target == matches[matches[m].nextMatchId]
          IN  /\ matches[m].winnerId \in {target.player1Id, target.player2Id}
              /\ target.player1Id # Null
              /\ target.player2Id # Null
              /\ target.player1Id # target.player2Id
              /\ target.status = "scheduled"
              /\ target.winnerId = Null

\* C29: under any interleaving of the result handlers on a match, a completed
\* match has both scores set and a winner that is one of its two players.
C29_CompletedHasResult ==
  \A m \in MatchIds :
    matches[m].status = "completed"
    => /\ matches[m].player1Score # NullScore
       /\ matches[m].player2Score # NullScore
       /\ matches[m].winnerId # Null
       /\ matches[m].winnerId \in {matches[m].player1Id, matches[m].player2Id}

\* C30: after a successful start the list startTournamentFull handed to the
\* generator is in the order of the seeds assignRandomSeeds stored: the
\* participant at the i-th place of the list is the one whose stored seed
\* is i.
C30_ListInSeedOrder ==
  \A format \in Formats :
    Generated(format)
    => LET list == getConfirmedParticipants(participants)
       IN  \A i \in DOMAIN list : list[i] = SeedOf(i)

=============================================================================
